---- MODULE Spec2Model ----
(***************************************************************************)
(* A model of tetris_console.py: the Piece and Game classes and the driver *)
(* loop of main().  Every method is an operator from a game record to the  *)
(* game record after the call; the actions are the branches of the driver  *)
(* loop.  Times are integer hundredths of a second.                        *)
(***************************************************************************)
EXTENDS Integers, Sequences, FiniteSets, TLC

\* ------------------------------------------------------------------------
\* Program constants
\* ------------------------------------------------------------------------
BOARD_WIDTH == 10

BOARD_HEIGHT == 20

\* the empty board cell (the 0 of [0]*BOARD_WIDTH); occupied cells hold the
\* shape letter
Empty == "0"

\* list(TETROMINOES.keys()), in insertion order
ShapeKeys == <<"I", "J", "L", "O", "S", "T", "Z">>

Shapes == {ShapeKeys[i] : i \in 1..Len(ShapeKeys)}

TETROMINOES ==
  [s \in Shapes |->
     CASE s = "I" -> << <<0,0,0,0>>, <<1,1,1,1>>, <<0,0,0,0>>, <<0,0,0,0>> >>
       [] s = "J" -> << <<1,0,0>>, <<1,1,1>>, <<0,0,0>> >>
       [] s = "L" -> << <<0,0,1>>, <<1,1,1>>, <<0,0,0>> >>
       [] s = "O" -> << <<1,1>>, <<1,1>> >>
       [] s = "S" -> << <<0,1,1>>, <<1,1,0>>, <<0,0,0>> >>
       [] s = "T" -> << <<0,1,0>>, <<1,1,1>>, <<0,0,0>> >>
       [] s = "Z" -> << <<1,1,0>>, <<0,1,1>>, <<0,0,0>> >>]

\* the kick offsets tried from left to right
KicksAscending == <<-2, -1, 0, 1, 2>>

\* the kick offsets of rotate_current, in the order they are tried
Kicks == <<0, -1, 1, -2, 2>>

\* drop_delay of a new game, 1.0 s
InitialDelay == 100

\* the floor of drop_delay, 0.05 s
MinDelay == 5

\* the 0.05 s by which drop_delay shrinks per level
DelayStep == 5

\* ------------------------------------------------------------------------
\* Bounds of the model
\* ------------------------------------------------------------------------
\* driver loop iterations explored after the opening
MaxIters == 3

\* how many of the shuffle outcomes of ShuffleList a game draws from
NumShuffles == 2

\* draws explored by the bag specification
MaxDraws == 15

\* ------------------------------------------------------------------------
\* Piece
\* ------------------------------------------------------------------------
\* matrix[r+1][c+1] is the code's matrix[r][c]
Piece(shape) ==
  LET m == TETROMINOES[shape]
  IN  [shape |-> shape, matrix |-> m, h |-> Len(m), w |-> Len(m[1]),
       x |-> (BOARD_WIDTH - Len(m[1])) \div 2, y |-> 0]

\* zip(*matrix[::-1]): new[r][c] = matrix[h-1-c][r]
rotate(p) ==
  LET m == [r \in 1..p.w |-> [c \in 1..p.h |-> p.matrix[p.h + 1 - c][r]]]
  IN  [p EXCEPT !.matrix = m, !.h = Len(m), !.w = Len(m[1])]

\* rotate_ccw without the [::-1]: a transposition
rotate_ccw_transpose(p) ==
  LET m == [r \in 1..p.w |-> [c \in 1..p.h |-> p.matrix[c][r]]]
  IN  [p EXCEPT !.matrix = m, !.h = Len(m), !.w = Len(m[1])]

\* zip(*matrix)[::-1]: new[r][c] = matrix[c][w-1-r]
rotate_ccw(p) ==
  LET m == [r \in 1..p.w |-> [c \in 1..p.h |-> p.matrix[c][p.w + 1 - r]]]
  IN  [p EXCEPT !.matrix = m, !.h = Len(m), !.w = Len(m[1])]

\* the (by, bx) board coordinates of the occupied cells of piece at (x, y)
Cells(piece, x, y) ==
  {<<y + r, x + c>> : <<r, c>> \in
     {rc \in (0..piece.h - 1) \X (0..piece.w - 1) :
        piece.matrix[rc[1] + 1][rc[2] + 1] # 0}}

InBoard(by, bx) ==
  /\ 0 <= bx /\ bx < BOARD_WIDTH
  /\ 0 <= by /\ by < BOARD_HEIGHT

\* ------------------------------------------------------------------------
\* Game
\* ------------------------------------------------------------------------
EmptyRow == [c \in 1..BOARD_WIDTH |-> Empty]

EmptyBoard == [r \in 1..BOARD_HEIGHT |-> EmptyRow]

\* next_piece that refills the bag before it is empty
next_piece_early(g, perm) ==
  LET bag0  == IF Len(g.bag) <= 1 THEN perm ELSE g.bag
      shape == bag0[Len(bag0)]
      blk   == IF g.ndraws % 7 = 0 THEN [s \in DOMAIN g.block |-> 0]
               ELSE g.block
  IN  [g     |-> [g EXCEPT !.bag = SubSeq(bag0, 1, Len(bag0) - 1),
                           !.ndraws = g.ndraws + 1,
                           !.block = [blk EXCEPT ![shape] = blk[shape] + 1]],
       piece |-> Piece(shape)]

\* no draw yet in a block of draws
NoDraws == [s \in Shapes |-> 0]

\* Game.next_piece; perm is what random.shuffle leaves in the bag when the
\* bag is refilled.  The history of the draws: ndraws counts them, block[s]
\* is how often s was drawn in the block of draws 7k+1 .. 7k+7 under way.
next_piece(g, perm) ==
  LET bag0  == IF g.bag = <<>> THEN perm ELSE g.bag
      shape == bag0[Len(bag0)]
      blk   == IF g.ndraws % Len(ShapeKeys) = 0 THEN NoDraws ELSE g.block
  IN  [g     |-> [g EXCEPT !.bag = SubSeq(bag0, 1, Len(bag0) - 1),
                           !.ndraws = g.ndraws + 1,
                           !.block = [blk EXCEPT ![shape] = blk[shape] + 1]],
       piece |-> Piece(shape)]

\* Game.valid with nx = x and ny = y (the callers pass piece.x, piece.y where
\* the code leaves the argument out)
valid(g, piece, x, y) ==
  \A cell \in Cells(piece, x, y) :
     /\ InBoard(cell[1], cell[2])
     /\ g.board[cell[1] + 1][cell[2] + 1] = Empty

\* clear_lines scoring with the level after the clear
clear_lines_newlevel(g) ==
  LET new_board == SelectSeq(g.board,
                     LAMBDA row : \E c \in 1..BOARD_WIDTH : row[c] = Empty)
      cleared   == BOARD_HEIGHT - Len(new_board)
      lines     == g.lines + cleared
      level     == 1 + lines \div 10
      delay     == InitialDelay - (level - 1) * DelayStep
  IN  IF cleared # 0
      THEN [g EXCEPT !.board = [i \in 1..cleared |-> EmptyRow] \o new_board,
                     !.lines = lines,
                     !.score = g.score + (cleared * 100) * level,
                     !.level = level,
                     !.drop_delay = IF delay > MinDelay THEN delay ELSE MinDelay]
      ELSE g

\* clear_lines without the max(0.05, ...) floor
clear_lines_nofloor(g) ==
  LET new_board == SelectSeq(g.board,
                     LAMBDA row : \E c \in 1..BOARD_WIDTH : row[c] = Empty)
      cleared   == BOARD_HEIGHT - Len(new_board)
      lines     == g.lines + cleared
      level     == 1 + lines \div 10
  IN  IF cleared # 0
      THEN [g EXCEPT !.board = [i \in 1..cleared |-> EmptyRow] \o new_board,
                     !.lines = lines,
                     !.score = g.score + (cleared * 100) * g.level,
                     !.level = level,
                     !.drop_delay = InitialDelay - (level - 1) * DelayStep]
      ELSE g

\* clear_lines putting the new empty rows at the bottom
clear_lines_bottom(g) ==
  LET new_board == SelectSeq(g.board,
                     LAMBDA row : \E c \in 1..BOARD_WIDTH : row[c] = Empty)
      cleared   == BOARD_HEIGHT - Len(new_board)
      lines     == g.lines + cleared
      level     == 1 + lines \div 10
      delay     == InitialDelay - (level - 1) * DelayStep
  IN  IF cleared # 0
      THEN [g EXCEPT !.board = new_board \o [i \in 1..cleared |-> EmptyRow],
                     !.lines = lines,
                     !.score = g.score + (cleared * 100) * g.level,
                     !.level = level,
                     !.drop_delay = IF delay > MinDelay THEN delay ELSE MinDelay]
      ELSE g

\* Game.clear_lines
clear_lines(g) ==
  LET new_board == SelectSeq(g.board,
                     LAMBDA row : \E c \in 1..BOARD_WIDTH : row[c] = Empty)
      cleared   == BOARD_HEIGHT - Len(new_board)
      lines     == g.lines + cleared
      level     == 1 + lines \div 10
      delay     == InitialDelay - (level - 1) * DelayStep
  IN  IF cleared # 0
      THEN [g EXCEPT !.board = [i \in 1..cleared |-> EmptyRow] \o new_board,
                     !.lines = lines,
                     !.score = g.score + (cleared * 100) * g.level,
                     !.level = level,
                     !.drop_delay = IF delay > MinDelay THEN delay ELSE MinDelay]
      ELSE g

\* the writing loop with by < BOARD_HEIGHT - 1 as its bounds test: cells of
\* the bottom row are not written
WritePiece_clipped(g, piece) ==
  LET cells == {cell \in Cells(piece, piece.x, piece.y) :
                  InBoard(cell[1] + 1, cell[2])}
  IN  [r \in 1..BOARD_HEIGHT |-> [c \in 1..BOARD_WIDTH |->
         IF <<r - 1, c - 1>> \in cells THEN piece.shape ELSE g.board[r][c]]]

\* the board after lock_piece's writing loop
WritePiece(g, piece) ==
  LET cells == {cell \in Cells(piece, piece.x, piece.y) :
                  InBoard(cell[1], cell[2])}
  IN  [r \in 1..BOARD_HEIGHT |-> [c \in 1..BOARD_WIDTH |->
         IF <<r - 1, c - 1>> \in cells THEN piece.shape ELSE g.board[r][c]]]

\* lock_piece without the call of clear_lines
lock_piece_noclear(g, piece, perm) ==
  LET g1 == [g EXCEPT !.board = WritePiece(g, piece)]
      np == next_piece(g1, perm)
      g2 == [np.g EXCEPT !.current = g1.next, !.next = np.piece,
                         !.nlocked = g.nlocked + 1]
  IN  IF ~valid(g2, g2.current, g2.current.x, g2.current.y)
      THEN [g2 EXCEPT !.game_over = TRUE]
      ELSE g2

\* lock_piece without the final validity check
lock_piece_nocheck(g, piece, perm) ==
  LET g1 == clear_lines([g EXCEPT !.board = WritePiece(g, piece)])
      np == next_piece(g1, perm)
  IN  [np.g EXCEPT !.current = g1.next, !.next = np.piece,
                   !.nlocked = g.nlocked + 1]

\* Game.lock_piece
lock_piece(g, piece, perm) ==
  LET g1 == clear_lines([g EXCEPT !.board = WritePiece(g, piece)])
      np == next_piece(g1, perm)
      g2 == [np.g EXCEPT !.current = g1.next, !.next = np.piece,
                         !.nlocked = g.nlocked + 1]
  IN  IF ~valid(g2, g2.current, g2.current.x, g2.current.y)
      THEN [g2 EXCEPT !.game_over = TRUE]
      ELSE g2

\* the loop of hard_drop as an if: one row at most
Descend_once(g) ==
  IF valid(g, g.current, g.current.x, g.current.y + 1)
  THEN [g EXCEPT !.current.y = g.current.y + 1, !.score = g.score + 2]
  ELSE g

\* the while loop of Game.hard_drop
RECURSIVE Descend(_)
Descend(g) ==
  IF valid(g, g.current, g.current.x, g.current.y + 1)
  THEN Descend([g EXCEPT !.current.y = g.current.y + 1,
                         !.score = g.score + 2])
  ELSE g

\* hard_drop scoring 1 point per row, as soft_drop does
hard_drop_onepoint(g, perm) ==
  LET g1 == Descend(g)
      g2 == [g1 EXCEPT !.score = g.score + (g1.current.y - g.current.y)]
  IN  lock_piece(g2, g2.current, perm)

\* Game.hard_drop
hard_drop(g, perm) ==
  LET g1 == Descend(g)
  IN  lock_piece(g1, g1.current, perm)

\* step without its lock branch: a piece that cannot move down is left alone
step_nolock(g, now, perm) ==
  IF g.paused \/ g.game_over
  THEN g
  ELSE IF /\ now - g.last_drop >= g.drop_delay
          /\ valid(g, g.current, g.current.x, g.current.y + 1)
       THEN [g EXCEPT !.current.y = g.current.y + 1, !.last_drop = now]
       ELSE g

\* step that sets last_drop only when the piece moved, not when it locked
step_stale(g, now, perm) ==
  IF g.paused \/ g.game_over
  THEN g
  ELSE IF now - g.last_drop >= g.drop_delay
       THEN IF valid(g, g.current, g.current.x, g.current.y + 1)
            THEN [g EXCEPT !.current.y = g.current.y + 1, !.last_drop = now]
            ELSE lock_piece(g, g.current, perm)
       ELSE g

\* Game.step; now is what time.time() returns
step(g, now, perm) ==
  IF g.paused \/ g.game_over
  THEN g
  ELSE IF now - g.last_drop >= g.drop_delay
       THEN LET g1 == IF valid(g, g.current, g.current.x, g.current.y + 1)
                      THEN [g EXCEPT !.current.y = g.current.y + 1]
                      ELSE lock_piece(g, g.current, perm)
            IN  [g1 EXCEPT !.last_drop = now]
       ELSE g

\* the for loop of Game.rotate_current over the kick offsets from the i-th:
\* the first offset at which the rotated piece is valid, or Len(Kicks) + 1
RECURSIVE FirstKick(_, _, _)
FirstKick(g, piece, i) ==
  IF i > Len(Kicks)
  THEN i
  ELSE IF valid(g, piece, piece.x + Kicks[i], piece.y)
       THEN i
       ELSE FirstKick(g, piece, i + 1)

\* rotate_current that keeps the rotated matrix when no kick offset is valid
rotate_current_norevert(g, ccw) ==
  LET rotated == IF ccw THEN rotate_ccw(g.current) ELSE rotate(g.current)
      i       == FirstKick(g, rotated, 1)
  IN  IF i <= Len(Kicks)
      THEN [g EXCEPT !.current = [rotated EXCEPT !.x = rotated.x + Kicks[i]]]
      ELSE [g EXCEPT !.current = rotated]

\* Game.rotate_current
rotate_current(g, ccw) ==
  LET rotated == IF ccw THEN rotate_ccw(g.current) ELSE rotate(g.current)
      i       == FirstKick(g, rotated, 1)
  IN  IF i <= Len(Kicks)
      THEN [g EXCEPT !.current = [rotated EXCEPT !.x = rotated.x + Kicks[i]]]
      ELSE g

\* move_current without the validity check
move_current_unchecked(g, dx) ==
  [g EXCEPT !.current.x = g.current.x + dx]

\* move_current that repeats the move once more when it can
move_current_twice(g, dx) ==
  LET g1 == IF valid(g, g.current, g.current.x + dx, g.current.y)
            THEN [g EXCEPT !.current.x = g.current.x + dx]
            ELSE g
  IN  IF valid(g1, g1.current, g1.current.x + dx, g1.current.y)
      THEN [g1 EXCEPT !.current.x = g1.current.x + dx]
      ELSE g1

\* Game.move_current
move_current(g, dx) ==
  IF valid(g, g.current, g.current.x + dx, g.current.y)
  THEN [g EXCEPT !.current.x = g.current.x + dx]
  ELSE g

\* soft_drop that ignores the key when the piece cannot move down
soft_drop_nolock(g, perm) ==
  IF valid(g, g.current, g.current.x, g.current.y + 1)
  THEN [g EXCEPT !.current.y = g.current.y + 1, !.score = g.score + 1]
  ELSE g

\* Game.soft_drop
soft_drop(g, perm) ==
  IF valid(g, g.current, g.current.x, g.current.y + 1)
  THEN [g EXCEPT !.current.y = g.current.y + 1, !.score = g.score + 1]
  ELSE lock_piece(g, g.current, perm)

\* Game.__init__; time.time() is 0 at construction
NewGame(perm) ==
  LET g0 == [board |-> EmptyBoard, score |-> 0, lines |-> 0, level |-> 1,
             drop_delay |-> InitialDelay, bag |-> <<>>,
             ndraws |-> 0, block |-> NoDraws, nlocked |-> 0]
      n1 == next_piece(g0, perm)
      n2 == next_piece(n1.g, perm)
  IN  [board |-> n2.g.board, score |-> 0, lines |-> 0, level |-> 1,
       drop_delay |-> InitialDelay, bag |-> n2.g.bag,
       current |-> n1.piece, next |-> n2.piece,
       game_over |-> FALSE, paused |-> FALSE, last_drop |-> 0,
       ndraws |-> n2.g.ndraws, block |-> n2.g.block, nlocked |-> 0]

\* ------------------------------------------------------------------------
\* main(): the driver loop
\* ------------------------------------------------------------------------
\* the if/elif chain of main() on the key ch ("" is getch() = -1 or a key
\* bound to nothing); "h", "l", "j", "z", "x", "p" stand for every key of
\* their branch
Dispatch(g, key, perm) ==
  CASE key = "h" -> move_current(g, -1)
    [] key = "l" -> move_current(g, 1)
    [] key = "j" -> soft_drop(g, perm)
    [] key = " " -> hard_drop(g, perm)
    [] key = "z" -> rotate_current(g, TRUE)
    [] key = "x" -> rotate_current(g, FALSE)
    [] key = "p" -> [g EXCEPT !.paused = ~g.paused]
    [] OTHER     -> g

\* shuffle outcomes of a recorded game in which 35 pieces (five bags) clear
\* 14 lines and leave the board empty: the bag after the k-th refill
LoopPerms ==
  << <<"T", "Z", "L", "O", "S", "J", "I">>,
     <<"Z", "J", "S", "L", "O", "T", "I">>,
     <<"T", "O", "L", "I", "J", "S", "Z">>,
     <<"L", "O", "Z", "I", "T", "S", "J">>,
     <<"L", "Z", "T", "S", "J", "O", "I">> >>

\* the 35 placements of that game: <<r, dx>> is r turns clockwise, then |dx|
\* moves (left if dx < 0, right if dx > 0), then a hard drop
LoopMoves ==
  << <<0, -3>>, <<3, 3>>, <<0, 1>>, <<0, 4>>, <<1, -4>>, <<0, -2>>, <<2, 0>>,
     <<0, -2>>, <<2, 2>>, <<0, 4>>, <<0, 0>>, <<0, -2>>, <<0, 3>>, <<1, -4>>,
     <<1, 0>>, <<0, -1>>, <<3, 4>>, <<1, 4>>, <<2, -3>>, <<0, 2>>, <<0, -3>>,
     <<0, 1>>, <<1, -2>>, <<1, -4>>, <<1, -2>>, <<0, -3>>, <<0, 3>>, <<3, 5>>,
     <<1, -1>>, <<0, 4>>, <<2, -3>>, <<0, 2>>, <<1, 1>>, <<0, 2>>, <<2, 4>> >>

\* the shuffle outcomes a game draws from: the first NumShuffles of these
ShuffleList ==
  << LoopPerms[1],
     <<"Z", "S", "O", "L", "J", "T", "I">>,
     <<"I", "J", "L", "O", "S", "T", "Z">>,
     <<"O", "I", "T", "Z", "S", "J", "L">> >>

Shuffles == {ShuffleList[i] : i \in 1..NumShuffles}

\* every outcome of random.shuffle(list(TETROMINOES.keys()))
AllShuffles ==
  {[i \in 1..Len(ShapeKeys) |-> f[ShapeKeys[i]]] : f \in Permutations(Shapes)}

\* random.shuffle runs only when the bag is refilled (line 84): the outcomes
\* to draw from in a call of next_piece on g
Refill(g, outcomes) == IF g.bag = <<>> THEN outcomes ELSE {ShapeKeys}

\* one pass of the loop body with key ch and no gravity drop due
Pass(g, key, perm) == step(Dispatch(g, key, perm), g.last_drop + 1, perm)

\* the shuffle outcome of the next refill of a recorded game
PermAt(perms, g) == perms[((g.ndraws \div Len(ShapeKeys)) % Len(perms)) + 1]

\* the keys of a placement
MoveKeys(m) ==
  [i \in 1..m[1] |-> "x"]
    \o [i \in 1..(IF m[2] < 0 THEN -m[2] ELSE m[2]) |->
          IF m[2] < 0 THEN "h" ELSE "l"]
    \o <<" ">>

\* the game after keys[lo..hi], one key per pass of the loop (after game
\* over the loop passes no key on)
RECURSIVE Replay(_, _, _, _, _)
Replay(g, keys, perms, lo, hi) ==
  IF lo > hi THEN g
  ELSE IF lo = hi THEN Pass(g, keys[lo], PermAt(perms, g))
  ELSE LET mid == (lo + hi) \div 2
           g1  == Replay(g, keys, perms, lo, mid)
       IN  IF g1.game_over THEN g1
           ELSE Replay(g1, keys, perms, mid + 1, hi)

\* the game after the placements moves[lo..hi]
RECURSIVE Place(_, _, _, _, _)
Place(g, moves, perms, lo, hi) ==
  IF lo > hi THEN g
  ELSE IF lo = hi
       THEN LET keys == MoveKeys(moves[lo])
            IN  Replay(g, keys, perms, 1, Len(keys))
  ELSE LET mid == (lo + hi) \div 2
           g1  == Place(g, moves, perms, lo, mid)
       IN  IF g1.game_over THEN g1
           ELSE Place(g1, moves, perms, mid + 1, hi)

\* the recorded game after cycles rounds of LoopMoves, the first n placements
\* of the next round and then keys
Loop(cycles, n, keys) ==
  LET moves == [i \in 1..(cycles * Len(LoopMoves) + n) |->
                  LoopMoves[((i - 1) % Len(LoopMoves)) + 1]]
      g1    == Place(NewGame(LoopPerms[1]), moves, LoopPerms, 1, Len(moves))
  IN  Replay(g1, keys, LoopPerms, 1, Len(keys))

\* n hard drops from a new game
Drops(n) == [i \in 1..n |-> " "]

\* the games the exploration starts from, each reached from construction by
\* recorded play: new games; the recorded game before its clears at 0, 4, 9,
\* 94, 188 and 198 lines; a stack one drop from the top; a T resting against
\* the right wall on an I
Openings ==
  {NewGame(perm) : perm \in Shuffles}
  \cup {Loop(0, 3, <<"l", "l", "l", "l">>),
        Loop(0, 17, <<"x", "l", "l", "l", "l">>),
        Loop(0, 31, <<"l", "l">>),
        Loop(6, 32, <<"x", "l">>),
        Loop(13, 19, <<"l", "l">>),
        Loop(14, 9, <<"l", "l", "l", "l">>),
        Replay(NewGame(LoopPerms[1]), Drops(10), LoopPerms, 1, 10),
        LET keys == <<"l", "l", " ", "l", "l", "l", "l">>
                      \o [i \in 1..17 |-> "j"]
        IN  Replay(NewGame(ShuffleList[2]), keys, <<ShuffleList[2]>>,
                   1, Len(keys))}

VARIABLES board, score, lines, level, drop_delay, bag, current, next,
          game_over, paused, last_drop, ch, pc, iters, ndraws, block, nlocked

vars == <<board, score, lines, level, drop_delay, bag, current, next,
          game_over, paused, last_drop, ch, pc, iters, ndraws, block, nlocked>>

\* the Game object
G == [board |-> board, score |-> score, lines |-> lines, level |-> level,
      drop_delay |-> drop_delay, bag |-> bag, current |-> current,
      next |-> next, game_over |-> game_over, paused |-> paused,
      last_drop |-> last_drop, ndraws |-> ndraws, block |-> block,
      nlocked |-> nlocked]

\* the Game object in the next state is g
Becomes(g) ==
  /\ board' = g.board /\ score' = g.score /\ lines' = g.lines
  /\ level' = g.level /\ drop_delay' = g.drop_delay /\ bag' = g.bag
  /\ current' = g.current /\ next' = g.next /\ game_over' = g.game_over
  /\ paused' = g.paused /\ last_drop' = g.last_drop
  /\ ndraws' = g.ndraws /\ block' = g.block /\ nlocked' = g.nlocked

GameUnchanged ==
  UNCHANGED <<board, score, lines, level, drop_delay, bag, current, next,
              game_over, paused, last_drop, ndraws, block, nlocked>>

Start(g) ==
  /\ board = g.board /\ score = g.score /\ lines = g.lines
  /\ level = g.level /\ drop_delay = g.drop_delay /\ bag = g.bag
  /\ current = g.current /\ next = g.next /\ game_over = g.game_over
  /\ paused = g.paused /\ last_drop = g.last_drop
  /\ ndraws = g.ndraws /\ block = g.block /\ nlocked = g.nlocked
  /\ ch = "" /\ pc = "getch" /\ iters = 0

\* construction (line 253) and the recorded play of an opening
Init == \E g \in Openings : Start(g)

\* the loop without its game_over branch: keys are dispatched after game over
KeyAfterGameOver(key) ==
  /\ pc = "getch" /\ iters < MaxIters
  /\ \E perm \in Refill(G, Shuffles) : Becomes(Dispatch(G, key, perm))
  /\ ch' = key /\ pc' = "step" /\ iters' = iters + 1

\* a pass of the loop that reads key and runs its branch (lines 265-282)
Key(key) ==
  /\ pc = "getch" /\ ~game_over /\ iters < MaxIters
  /\ \E perm \in Refill(G, Shuffles) : Becomes(Dispatch(G, key, perm))
  /\ ch' = key /\ pc' = "step" /\ iters' = iters + 1

KeyLeft == Key("h")

KeyRight == Key("l")

KeyDown == Key("j")

KeySpace == Key(" ")

KeyZ == Key("z")

KeyX == Key("x")

KeyP == Key("p")

NoKey == Key("")

\* q ends the loop, in play and after game over
KeyQ ==
  /\ pc = "getch" /\ iters < MaxIters
  /\ ch' = "q" /\ pc' = "quit" /\ iters' = iters + 1
  /\ GameUnchanged

\* the times time.time() may return in step: before, just before and at the
\* moment the next drop is due
Nows(g) == {g.last_drop + 1, g.last_drop + g.drop_delay - 1,
            g.last_drop + g.drop_delay}

\* game.step(); game.draw(); time.sleep(0.01) (lines 284-286)
Step ==
  /\ pc = "step"
  /\ \E now \in Nows(G), perm \in Refill(G, Shuffles) :
       Becomes(step(G, now, perm))
  /\ pc' = "getch"
  /\ UNCHANGED <<ch, iters>>

\* the game_over branch of the loop (lines 257-263): any key but q is ignored
GameOverPoll ==
  /\ pc = "getch" /\ game_over /\ iters < MaxIters
  /\ \E key \in {"", "h", "l", "j", " ", "z", "x", "p"} : ch' = key
  /\ pc' = "getch" /\ iters' = iters + 1
  /\ GameUnchanged

Next ==
  \/ KeyLeft \/ KeyRight \/ KeyDown \/ KeySpace \/ KeyZ \/ KeyX \/ KeyP
  \/ NoKey \/ KeyQ \/ Step \/ GameOverPoll

Spec == Init /\ [][Next]_vars

\* ------------------------------------------------------------------------
\* The bag on its own: draws from the empty bag of line 76, any shuffle
\* ------------------------------------------------------------------------
\* current and next before __init__ assigns them
NoPiece == [shape |-> "", matrix |-> <<>>, h |-> 0, w |-> 0, x |-> 0, y |-> 0]

\* Game.__init__ up to line 76
InitBag ==
  /\ board = EmptyBoard /\ score = 0 /\ lines = 0 /\ level = 1
  /\ drop_delay = InitialDelay /\ bag = <<>>
  /\ current = NoPiece /\ next = NoPiece
  /\ game_over = FALSE /\ paused = FALSE /\ last_drop = 0
  /\ ndraws = 0 /\ block = NoDraws /\ nlocked = 0
  /\ ch = "" /\ pc = "new" /\ iters = 0

\* a call of next_piece, its piece becoming next as in lines 77-78 and 113-114
Draw ==
  /\ pc = "new" /\ ndraws < MaxDraws
  /\ \E perm \in Refill(G, AllShuffles) :
       LET np == next_piece(G, perm)
       IN  Becomes([np.g EXCEPT !.current = next, !.next = np.piece])
  /\ UNCHANGED <<ch, pc, iters>>

NextBag == Draw

SpecBag == InitBag /\ [][NextBag]_vars

\* ------------------------------------------------------------------------
\* The loop left alone: getch() returns -1 in every pass and every call of
\* step finds the drop delay elapsed
\* ------------------------------------------------------------------------
\* the order seq turned so that its k-th element comes first
Shift(seq, k) ==
  [i \in 1..Len(seq) |-> seq[((i + k - 2) % Len(seq)) + 1]]

\* seq backwards
Reverse(seq) == [i \in 1..Len(seq) |-> seq[Len(seq) + 1 - i]]

\* the shuffle outcomes of an idle game: Shuffles and every turn of the
\* insertion order and of its reverse (every shape is drawn first, last and
\* at every place between)
IdleShuffles ==
  Shuffles
    \cup {Shift(ShapeKeys, k) : k \in 1..Len(ShapeKeys)}
    \cup {Shift(Reverse(ShapeKeys), k) : k \in 1..Len(ShapeKeys)}

\* construction (line 253)
InitIdle == \E perm \in IdleShuffles : Start(NewGame(perm))

\* getch() returns -1: no branch of the if/elif chain runs (lines 265-266)
IdleGetch ==
  /\ pc = "getch" /\ ~game_over
  /\ \E perm \in Refill(G, IdleShuffles) : Becomes(Dispatch(G, "", perm))
  /\ ch' = "" /\ pc' = "step"
  /\ UNCHANGED iters

\* game.step() at the moment the drop is due (lines 284-286)
IdleStep ==
  /\ pc = "step"
  /\ \E perm \in Refill(G, IdleShuffles) :
       Becomes(step(G, last_drop + drop_delay, perm))
  /\ pc' = "getch"
  /\ UNCHANGED <<ch, iters>>

\* the game_over branch of the loop with getch() = -1 (lines 257-263)
IdleOver ==
  /\ pc = "getch" /\ game_over
  /\ ch' = "" /\ pc' = "getch"
  /\ UNCHANGED iters
  /\ GameUnchanged

NextIdle == IdleGetch \/ IdleStep \/ IdleOver

\* a pass of the loop moves on from getch to step and from step to the next
\* getch
LoopGoesOn ==
  \/ pc = "getch" /\ ~game_over /\ pc' = "step"
  \/ pc = "step" /\ pc' = "getch"

\* the loop keeps running: while True (line 255)
SpecIdle == InitIdle /\ [][NextIdle]_vars /\ WF_pc(LoopGoesOn)

\* ------------------------------------------------------------------------
\* Properties
\* ------------------------------------------------------------------------
\* the board cells under the occupied cells of the current piece
Footprint ==
  {<<current.y + r, current.x + c>> : <<r, c>> \in
     {rc \in (0..current.h - 1) \X (0..current.w - 1) :
        current.matrix[rc[1] + 1][rc[2] + 1] = 1}}

InBounds ==
  \A cell \in Footprint :
     /\ cell[1] \in 0..BOARD_HEIGHT - 1
     /\ cell[2] \in 0..BOARD_WIDTH - 1

Overlaps ==
  \E cell \in Footprint :
     /\ cell[1] \in 0..BOARD_HEIGHT - 1
     /\ cell[2] \in 0..BOARD_WIDTH - 1
     /\ board[cell[1] + 1][cell[2] + 1] # Empty

\* C1 as claimed: in every reachable state the occupied cells of the current
\* piece lie inside the board and on empty board cells.
C1Claimed == InBounds /\ ~Overlaps

\* C1, amended: the occupied cells of the current piece always lie inside the
\* board; they lie on empty board cells exactly while game_over is false.
C1PieceFits == InBounds /\ (game_over <=> Overlaps)

\* a move to the right was just dispatched to a piece touching the right wall
C1Witness ==
  /\ pc = "step" /\ ch = "l" /\ ~game_over
  /\ \E cell \in Footprint : cell[2] = BOARD_WIDTH - 1

\* C2: while paused, the keys of move_current, soft_drop, hard_drop and
\* rotate_current leave the board, the current piece, the next piece, score,
\* lines, level and game_over unchanged.
C2PausedNoOp ==
  [][(paused /\ pc = "getch" /\ ch' \in {"h", "l", "j", " ", "z", "x"})
       => UNCHANGED <<board, current, next, score, lines, level, game_over>>]_vars

\* C3: once game_over is true it stays true, and no key or tick changes the
\* board, the current or next piece, score, lines, level or paused.
C3GameOverTerminal ==
  [][game_over => (game_over' /\ UNCHANGED <<board, current, next, score,
                                             lines, level, paused>>)]_vars

\* a key was read after game over (no gravity drop ever happened, so the
\* locking key was a drop key and "h" was read later)
C3Witness == game_over /\ ch = "h" /\ last_drop = 0

\* C4: no reachable state has paused and game_over together.
C4NotPausedAndOver == ~(paused /\ game_over)

\* C5: every block of draws 7k+1 .. 7k+7 holds each shape once (no shape
\* twice while the block is under way, all seven when it is complete); the
\* bag holds no duplicate and exactly the shapes the block still lacks, so
\* it was refilled only when empty.
C5BagFair ==
  /\ \A s \in Shapes : block[s] <= 1
  /\ (ndraws > 0 /\ ndraws % 7 = 0) => \A s \in Shapes : block[s] = 1
  /\ \A i, j \in 1..Len(bag) : bag[i] = bag[j] => i = j
  /\ {bag[i] : i \in 1..Len(bag)} =
       IF ndraws % 7 = 0 THEN {} ELSE {s \in Shapes : block[s] = 0}

\* two blocks are complete and a third is under way
C5Witness == ndraws = 15 /\ Len(bag) = 6

\* the current piece fits the board at (x, y)
FitsAt(x, y) ==
  \A r \in 0..current.h - 1, c \in 0..current.w - 1 :
     current.matrix[r + 1][c + 1] = 1 =>
       /\ y + r \in 0..BOARD_HEIGHT - 1
       /\ x + c \in 0..BOARD_WIDTH - 1
       /\ board[y + r + 1][x + c + 1] = Empty

\* the row at which the current piece comes to rest by straight descent
RestY ==
  CHOOSE y \in current.y..BOARD_HEIGHT :
     /\ \A k \in current.y + 1..y : FitsAt(current.x, k)
     /\ ~FitsAt(current.x, y + 1)

\* the board with the current piece written at its resting place
Stamped ==
  LET y == RestY
  IN  [r \in 1..BOARD_HEIGHT |-> [c \in 1..BOARD_WIDTH |->
         IF /\ r - 1 - y \in 0..current.h - 1
            /\ c - 1 - current.x \in 0..current.w - 1
            /\ current.matrix[r - y][c - current.x] = 1
         THEN current.shape
         ELSE board[r][c]]]

\* the rows of b without an empty cell
FullRows(b) ==
  {r \in 1..BOARD_HEIGHT : \A c \in 1..BOARD_WIDTH : b[r][c] # Empty}

\* this step locks a piece (every lock promotes the next piece)
Locks == nlocked' = nlocked + 1

\* rows descended by the hard drop of this step, 0 in any other step
Fallen == IF pc = "getch" /\ ch' = " " THEN RestY - current.y ELSE 0

\* C6: a lock that clears n > 0 rows at level L adds exactly 100*n*L to the
\* score (beside the 2 points per row of a hard drop's descent) and n to
\* lines; a lock that fills no row leaves lines, level and drop_delay alone
\* and adds no clear points.
C6ClearScore ==
  [][Locks =>
       LET pre == Stamped
           n   == Cardinality(FullRows(pre))
       IN  /\ lines' = lines + n
           /\ score' = score + 2 * Fallen + 100 * n * level
           /\ n = 0 => (level' = level /\ drop_delay' = drop_delay)]_vars

\* a hard drop just cleared the tenth line at level 1 and raised the level
C6Witness == pc = "step" /\ ch = " " /\ lines = 10 /\ level = 2

\* C7: level = 1 + floor(lines / 10) and drop_delay = max(0.05,
\* 1.0 - (level - 1) * 0.05) in every reachable state, in hundredths of a
\* second: max(5, 100 - 5 * (level - 1)).
C7LevelDelay ==
  /\ level = 1 + lines \div 10
  /\ drop_delay = IF 100 - 5 * (level - 1) > 5 THEN 100 - 5 * (level - 1) ELSE 5

\* a clear just took lines to 200, where 1.0 - 20 * 0.05 is 0 and the floor
\* of 0.05 applies
C7Witness == pc = "step" /\ lines = 200 /\ level = 21 /\ drop_delay = 5

\* C8: a lock leaves k empty rows on top of the rows that were not full when
\* the piece was written, in their order and with their cells unchanged,
\* where k is the number of rows that were full; lines grows by k.
C8ClearRows ==
  [][Locks =>
       LET pre  == Stamped
           full == FullRows(pre)
           k    == Cardinality(full)
       IN  /\ lines' = lines + k
           /\ DOMAIN board' = 1..BOARD_HEIGHT
           /\ \A i \in 1..k : \A c \in 1..BOARD_WIDTH : board'[i][c] = Empty
           /\ \A r \in (1..BOARD_HEIGHT) \ full :
                board'[k + Cardinality({q \in 1..r : q \notin full})]
                  = pre[r]]_vars

\* a hard drop just cleared one row and the rest of the piece moved down
C8Witness ==
  /\ pc = "step" /\ ch = " " /\ lines = 1
  /\ \E c \in 1..BOARD_WIDTH : board[BOARD_HEIGHT][c] # Empty

\* C9: a lock promotes the next piece and sets game_over exactly when that
\* piece does not fit at its spawn position on the board left by the write
\* and the clear; the board is that board, whether the piece fits or not.
C9GameOverOnLock ==
  [][Locks =>
       /\ current' = next
       /\ LET pre == Stamped
          IN  board' = clear_lines([G EXCEPT !.board = pre]).board
       /\ game_over' =
            (\E r \in 0..next.h - 1, c \in 0..next.w - 1 :
                /\ next.matrix[r + 1][c + 1] = 1
                /\ board'[next.y + r + 1][next.x + c + 1] # Empty)]_vars

\* a hard drop just locked the eleventh piece of a game of hard drops only,
\* and the piece spawned onto the stack
C9Witness == pc = "step" /\ ch = " " /\ game_over /\ nlocked = 11 /\ Overlaps

\* the current piece after rotate_current(ccw=False), rotate_current(ccw=True)
CwThenCcw == rotate_current(rotate_current(G, FALSE), TRUE).current

\* rotate_current(ccw=False) finds a valid kick offset
CwCommits ==
  \E i \in 1..Len(Kicks) :
     valid(G, rotate(current), current.x + Kicks[i], current.y)

\* C10 as claimed: in play, rotate_current(ccw=False) then
\* rotate_current(ccw=True) restores the matrix and dimensions.
C10Claimed ==
  ~game_over =>
     /\ CwThenCcw.matrix = current.matrix
     /\ CwThenCcw.h = current.h /\ CwThenCcw.w = current.w

\* C10, amended: they are restored whenever the first call commits its
\* rotation; when it is rejected the second call acts on the unrotated piece.
C10CwCcwRestores ==
  ~game_over =>
     /\ CwCommits =>
          /\ CwThenCcw.matrix = current.matrix
          /\ CwThenCcw.h = current.h /\ CwThenCcw.w = current.w
     /\ ~CwCommits => CwThenCcw = rotate_current(G, TRUE).current

\* a rotation key was just dispatched, and from here the clockwise rotation
\* commits only with a kick and changes the matrix
C10Witness ==
  /\ pc = "step" /\ ch = "z" /\ ~game_over
  /\ FirstKick(G, rotate(current), 1) \in 2..Len(Kicks)
  /\ rotate(current).matrix # current.matrix

\* the piece after Piece.rotate_ccw (ccw) or Piece.rotate
Turn(p, ccw) == IF ccw THEN rotate_ccw(p) ELSE rotate(p)

\* the piece after k quarter turns in one direction
RECURSIVE Turns(_, _, _)
Turns(p, ccw, k) == IF k = 0 THEN p ELSE Turns(Turn(p, ccw), ccw, k - 1)

\* the position in the kick order at which a call of rotate_current on g
\* commits, Len(Kicks) + 1 when the rotation is rejected
KickIndex(g, ccw) == FirstKick(g, Turn(g.current, ccw), 1)

\* the present game and the game after each of four consecutive calls of
\* rotate_current in one direction
Rot4(ccw) ==
  LET g1 == rotate_current(G, ccw)
      g2 == rotate_current(g1, ccw)
      g3 == rotate_current(g2, ccw)
      g4 == rotate_current(g3, ccw)
  IN  <<G, g1, g2, g3, g4>>

\* the positions in the kick order at which the four calls commit
Rot4Index(gs, ccw) ==
  <<KickIndex(gs[1], ccw), KickIndex(gs[2], ccw),
    KickIndex(gs[3], ccw), KickIndex(gs[4], ccw)>>

\* how many of the four calls commit
NumCommits(idx) == Cardinality({n \in 1..4 : idx[n] <= Len(Kicks)})

\* none of the four calls commits a nonzero kick offset
NoKick(idx) == \A n \in 1..4 : idx[n] <= Len(Kicks) => Kicks[idx[n]] = 0

\* this step is the call of rotate_current made for a rotation key
Rotates == pc = "getch" /\ pc' = "step" /\ ch' \in {"z", "x"}

\* C11 as claimed: in play, four consecutive rotate_current calls in one
\* direction, the first made for a rotation key, restore the matrix and
\* dimensions of the current piece, and its x if no call committed a nonzero
\* kick; y never changes.
C11Claimed ==
  [][\A ccw \in BOOLEAN :
       (Rotates /\ ccw = (ch' = "z")) =>
          LET gs  == Rot4(ccw)
              idx == Rot4Index(gs, ccw)
              p   == gs[5].current
          IN  /\ current' = gs[2].current
              /\ p.matrix = current.matrix
              /\ p.h = current.h /\ p.w = current.w
              /\ NoKick(idx) => p.x = current.x
              /\ \A n \in 2..5 : gs[n].current.y = current.y]_vars

\* C11, amended: four consecutive rotate_current calls in one direction, the
\* first made for a rotation key, leave the piece turned once per call that
\* committed, so its matrix and dimensions are restored when all four commit
\* (or none does); x is restored if no call committed a nonzero kick; y
\* never changes.
C11FourTurns ==
  [][\A ccw \in BOOLEAN :
       (Rotates /\ ccw = (ch' = "z")) =>
          LET gs  == Rot4(ccw)
              idx == Rot4Index(gs, ccw)
              k   == NumCommits(idx)
              p   == gs[5].current
              q   == Turns(current, ccw, k)
          IN  /\ current' = gs[2].current
              /\ p.matrix = q.matrix /\ p.h = q.h /\ p.w = q.w
              /\ k \in {0, 4} =>
                   /\ p.matrix = current.matrix
                   /\ p.h = current.h /\ p.w = current.w
              /\ NoKick(idx) => p.x = current.x
              /\ \A n \in 2..5 : gs[n].current.y = current.y]_vars

\* a clockwise rotation was just dispatched, and from here four more commit
\* without a kick, each changing the matrix
C11Witness ==
  /\ pc = "step" /\ ch = "x" /\ ~game_over
  /\ LET idx == Rot4Index(Rot4(FALSE), FALSE)
     IN  NumCommits(idx) = 4 /\ NoKick(idx)
  /\ rotate(current).matrix # current.matrix

\* piece p fits the board at (x, y): its occupied cells are inside the board
\* and on empty cells
Fits(p, x, y) ==
  \A r \in 0..p.h - 1, c \in 0..p.w - 1 :
     p.matrix[r + 1][c + 1] = 1 =>
       /\ y + r \in 0..BOARD_HEIGHT - 1
       /\ x + c \in 0..BOARD_WIDTH - 1
       /\ board[y + r + 1][x + c + 1] = Empty

\* C12: rotate_current commits the rotated matrix at x + d for the first d in
\* the order 0, -1, +1, -2, +2 at which the rotated piece fits; if it fits at
\* none, matrix, width, height, x and y are as before the call.  In both
\* cases y, the board, score, lines and the next piece are unchanged.
C12RotateKick ==
  [][Rotates =>
       LET order == <<0, -1, 1, -2, 2>>
           r     == Turn(current, ch' = "z")
           hits  == {i \in 1..5 : Fits(r, current.x + order[i], current.y)}
           first == CHOOSE i \in hits : \A j \in hits : i <= j
       IN  /\ hits # {} =>
                current' = [r EXCEPT !.x = current.x + order[first]]
           /\ hits = {} => current' = current
           /\ current'.y = current.y
           /\ UNCHANGED <<board, score, lines, next>>]_vars

\* a counter-clockwise rotation was just dispatched to the T that rested at
\* x = 7 against the right wall on an I, and was committed at offset +1, the
\* third in the order (offsets 0 and -1 put a cell on the I)
C12Witness ==
  /\ pc = "step" /\ ch = "z" /\ ~game_over
  /\ current = [rotate_ccw(Piece("T")) EXCEPT !.x = 8, !.y = 17]
  /\ board[BOARD_HEIGHT] =
       [c \in 1..BOARD_WIDTH |-> IF c \in 6..9 THEN "I" ELSE Empty]

\* this step is the call of hard_drop made for the space key
HardDrops == pc = "getch" /\ pc' = "step" /\ ch' = " "

\* C13: hard_drop ends: its loop runs at most BOARD_HEIGHT - 1 times (once
\* per row, each adding 2 to the score), leaves the piece at the first y at
\* which y + 1 does not fit with x and matrix unchanged, and a lock follows:
\* the piece is written there and the former next piece becomes current.
C13HardDropLands ==
  [][HardDrops =>
       LET y  == RestY
           g1 == Descend(G)
       IN  /\ y - current.y \in 0..BOARD_HEIGHT - 1
           /\ g1.score - score = 2 * (y - current.y)
           /\ g1.current = [current EXCEPT !.y = y]
           /\ ~Fits(current, current.x, y + 1)
           /\ \A k \in current.y..y : Fits(current, current.x, k)
           /\ Locks
           /\ board' = clear_lines([G EXCEPT !.board = Stamped]).board
           /\ current' = next]_vars

\* the first piece of a game, an I, was just hard-dropped from the spawn row
\* to the floor: 18 rows
C13Witness ==
  /\ pc = "step" /\ ch = " " /\ nlocked = 1 /\ score = 2 * (BOARD_HEIGHT - 2)
  /\ \A c \in 4..7 : board[BOARD_HEIGHT][c] = "I"

\* C14: a hard drop that falls d rows and whose lock clears n rows at level
\* L (the level before the clear) adds exactly 2*d + 100*n*L to the score; a
\* hard drop of a resting piece (d = 0) adds no drop points and still locks.
C14HardDropScore ==
  [][HardDrops =>
       LET d == RestY - current.y
           n == Cardinality(FullRows(Stamped))
       IN  /\ d >= 0
           /\ score' = score + 2 * d + 100 * n * level
           /\ d = 0 => (score' = score + 100 * n * level /\ Locks)]_vars

\* the T that was brought down by 17 soft drops onto an I (36 + 17 points so
\* far) was just hard-dropped where it rested: it is locked and the score is
\* the same
C14Witness ==
  /\ pc = "step" /\ ch = " " /\ nlocked = 2 /\ score = 53 /\ lines = 0
  /\ \E c \in 1..BOARD_WIDTH : board[BOARD_HEIGHT - 1][c] = "T"

\* this step is the call of soft_drop made for the down key
SoftDrops == pc = "getch" /\ pc' = "step" /\ ch' = "j"

\* C15: soft_drop moves the piece down one row and adds 1 to the score when
\* the piece fits one row lower, leaving the board, x, the matrix, the next
\* piece, lines and game_over as they were; otherwise it locks the piece
\* where it is and adds no drop point.
C15SoftDrop ==
  [][SoftDrops =>
       IF Fits(current, current.x, current.y + 1)
       THEN /\ current' = [current EXCEPT !.y = current.y + 1]
            /\ score' = score + 1
            /\ ~Locks
            /\ UNCHANGED <<board, next, lines, game_over>>
       ELSE LET pre == Stamped
                n   == Cardinality(FullRows(pre))
            IN  /\ RestY = current.y
                /\ Locks
                /\ current' = next
                /\ board' = clear_lines([G EXCEPT !.board = pre]).board
                /\ score' = score + 100 * n * level]_vars

\* the T that 17 soft drops brought down onto an I (36 + 17 points) was just
\* locked by one more soft drop, which added no point
C15Witness ==
  /\ pc = "step" /\ ch = "j" /\ nlocked = 2 /\ score = 53
  /\ \E c \in 1..BOARD_WIDTH : board[BOARD_HEIGHT - 1][c] = "T"

\* this step is the call of step at the end of a pass of the loop
Ticks == pc = "step" /\ pc' = "getch"

\* C16: step changes nothing, last_drop included, when paused or game_over,
\* and nothing when now - last_drop < drop_delay.  When the delay has elapsed
\* it moves the piece down exactly one row if it fits there, else locks it,
\* adds no score for the descent and sets last_drop to now; called when
\* three drops are due it does what it does when one is due.
C16Tick ==
  [][Ticks =>
       /\ IF paused \/ game_over
          THEN GameUnchanged
          ELSE \/ GameUnchanged
               \/ /\ last_drop' - last_drop >= drop_delay
                  /\ IF Fits(current, current.x, current.y + 1)
                     THEN /\ current' = [current EXCEPT !.y = current.y + 1]
                          /\ ~Locks
                          /\ UNCHANGED <<board, score, lines, level, next,
                                         game_over, paused>>
                     ELSE LET pre == Stamped
                              n   == Cardinality(FullRows(pre))
                          IN  /\ Locks
                              /\ current' = next
                              /\ board' =
                                   clear_lines([G EXCEPT !.board = pre]).board
                              /\ score' = score + 100 * n * level
       /\ \A perm \in Refill(G, Shuffles) :
             LET due  == last_drop + drop_delay
                 late == last_drop + 3 * drop_delay
             IN  /\ \A now \in Nows(G) :
                       IF paused \/ game_over \/ now < due
                       THEN step(G, now, perm) = G
                       ELSE step(G, now, perm).last_drop = now
                 /\ step(G, late, perm) =
                      IF paused \/ game_over
                      THEN G
                      ELSE [step(G, due, perm) EXCEPT !.last_drop = late]]_vars

\* one drop delay after the start of a game a step has moved the first piece
\* down one row, without score
C16Witness ==
  /\ pc = "getch" /\ last_drop = InitialDelay /\ drop_delay = InitialDelay
  /\ nlocked = 0 /\ score = 0 /\ current.y = 1

\* this step is the call of move_current made for a left or right key
Moves == pc = "getch" /\ pc' = "step" /\ ch' \in {"h", "l"}

\* C17: move_current(dx), dx = -1 or +1, makes x = x + dx exactly when the
\* piece fits at x + dx and otherwise changes nothing at all; either way y,
\* the matrix, the board, score, lines, the next piece and game_over are
\* unchanged and nothing is locked.
C17MoveHorizontal ==
  [][Moves =>
       LET dx == IF ch' = "h" THEN -1 ELSE 1
       IN  /\ IF Fits(current, current.x + dx, current.y)
              THEN current' = [current EXCEPT !.x = current.x + dx]
              ELSE GameUnchanged
           /\ ~Locks
           /\ UNCHANGED <<board, score, lines, level, next, game_over>>]_vars

\* the first key of the pass was a move to the right for the T resting at
\* x = 7 against the right wall: it was rejected and the T is where it was
C17Witness ==
  /\ pc = "step" /\ ch = "l" /\ iters = 1 /\ nlocked = 1
  /\ current = [Piece("T") EXCEPT !.x = 7, !.y = 17]

\* C18: in every reachable state every row of the board has at least one
\* empty cell.
C18NoFullRow ==
  \A r \in 1..BOARD_HEIGHT : \E c \in 1..BOARD_WIDTH : board[r][c] = Empty

\* the hard drop of the eighteenth piece just filled two rows at once, and
\* the lock cleared them (lines went from 4 to 6)
C18Witness ==
  /\ pc = "step" /\ ch = " " /\ nlocked = 18 /\ lines = 6
  /\ \E c \in 1..BOARD_WIDTH : board[BOARD_HEIGHT][c] # Empty

\* the occupied cells of the board
Occupied ==
  {rc \in (1..BOARD_HEIGHT) \X (1..BOARD_WIDTH) : board[rc[1]][rc[2]] # Empty}

\* C19: in every reachable state the number of occupied board cells is 4
\* times the number of pieces locked so far less BOARD_WIDTH times lines, and
\* every occupied cell holds a shape letter.
C19CellConservation ==
  /\ Cardinality(Occupied) = 4 * nlocked - BOARD_WIDTH * lines
  /\ \A rc \in Occupied : board[rc[1]][rc[2]] \in Shapes

\* the 500th lock of a game just cleared its 200th line and left the board
\* empty
C19Witness ==
  /\ pc = "step" /\ ch = " " /\ nlocked = 500 /\ lines = 200
  /\ Occupied = {}

\* C20: with no key and every call of step finding the drop due, whatever
\* the shuffles, the game reaches game_over; lines and score stay 0 all the
\* way and only columns 3..6 of the board are ever occupied.
C20IdleGameEnds ==
  /\ <>game_over
  /\ [](/\ lines = 0 /\ score = 0
        /\ \A rc \in Occupied : rc[2] - 1 \in 3..6)

\* an idle game is over in its second bag: gravity alone locked more than
\* seven pieces, without a point or a line
C20Witness ==
  /\ game_over /\ pc = "getch" /\ nlocked > Len(ShapeKeys)
  /\ last_drop > 0 /\ score = 0 /\ lines = 0

====
